---- MODULE Spec2Model ----
(***************************************************************************)
(* Model of the weather retrieval pipeline (GetWeatherData.py) and of the  *)
(* transliteration utility (String2Pinyin.py).                             *)
(*                                                                         *)
(* Text is a sequence of one-character strings.  The CJK characters of the *)
(* source are written by their code points: "U5E74" (year mark), "U6708"   *)
(* (month mark), "U65E5" (day mark), "U5E02" (the city suffix), "U6DF1",   *)
(* "U5733", "U5317", "U4EAC" (Shen, Zhen, Bei, Jing).                      *)
(***************************************************************************)
EXTENDS Integers, Sequences, FiniteSets, TLC

VARIABLES
    pc,              \* position of the modelled routine
    start_date,      \* start_date of GetWeatherData / _get_month_list / _filter_data_by_date
    end_date,        \* end_date of _get_month_list / _filter_data_by_date (today, in a run)
    ym,              \* _get_month_list: loop variable of range(start_ym, end_ym + 1)
    year_months,     \* _get_month_list: the list being built
    rollovers,       \* number of times the branch `if month > 12` was entered
    zeroMonths,      \* number of visited ym values that decode to month 0
    r,               \* _parse_html_to_data: index of the row the loop is at
    data,            \* _parse_html_to_data: the list being built
    all_data,        \* GetWeatherData: all_data / _filter_data_by_date: data
    filtered_data,   \* result of _filter_data_by_date
    site,            \* the remote site: the days it has a row for
    k,               \* GetWeatherData: index into months_to_fetch
    months_to_fetch, \* GetWeatherData: months_to_fetch
    html_content,    \* GetWeatherData: result of _fetch_monthly_data
    requested,       \* the YearMonth tokens requested over HTTP so far, in order
    files,           \* the files that exist under output/
    partial,         \* the files among them left incomplete by a write that raised
    failures,        \* number of failed fetches of the run so far
    unwritable,      \* the file system: the paths under output/ that can not be written
    inputStr,        \* String2Pinyin: inputStr
    modifiedStr,     \* String2Pinyin: modifiedStr
    pinyinList,      \* String2Pinyin: pinyinList
    pinyin           \* String2Pinyin: pinyin

monthVars == <<ym, year_months, rollovers, zeroMonths>>
parseVars == <<r, data>>
runVars == <<site, k, months_to_fetch, html_content, requested, files, partial, failures, unwritable>>
filterVars == <<all_data, filtered_data>>
pinyinVars == <<inputStr, modifiedStr, pinyinList, pinyin>>

vars == <<pc, start_date, end_date, monthVars, parseVars, runVars, filterVars, pinyinVars>>

(***************************************************************************)
(* Bounds of the model.                                                    *)
(***************************************************************************)
BaseYear == 2023
YearSpan == 1

Years == BaseYear .. (BaseYear + YearSpan)

\* Times of day: 0 is midnight exactly, 1 stands for every later instant.
Tods == {0, 1}

\* Python's None and a present value, as a sequence of no or one element
None == <<>>
Some(x) == <<x>>

(***************************************************************************)
(* Calendar arithmetic of datetime.                                        *)
(***************************************************************************)
IsLeap(y) == (y % 4 = 0) /\ ((y % 100 # 0) \/ (y % 400 = 0))

DaysInMonth(y, m) ==
    IF m = 2 THEN (IF IsLeap(y) THEN 29 ELSE 28)
    ELSE IF m \in {4, 6, 9, 11} THEN 30 ELSE 31

DateTime(y, m, d, t) == [year |-> y, month |-> m, day |-> d, tod |-> t]

\* datetime comparison: lexicographic on (year, month, day, time of day)
DtLess(a, b) ==
    \/ a.year < b.year
    \/ a.year = b.year /\ a.month < b.month
    \/ a.year = b.year /\ a.month = b.month /\ a.day < b.day
    \/ a.year = b.year /\ a.month = b.month /\ a.day = b.day /\ a.tod < b.tod

DtLeq(a, b) == a = b \/ DtLess(a, b)

\* dt - timedelta(days=1)
PrevDay(dt) ==
    IF dt.day > 1 THEN [dt EXCEPT !.day = dt.day - 1]
    ELSE IF dt.month > 1
         THEN [dt EXCEPT !.month = dt.month - 1,
                         !.day = DaysInMonth(dt.year, dt.month - 1)]
         ELSE [dt EXCEPT !.year = dt.year - 1, !.month = 12, !.day = 31]

\* dt - timedelta(days=n)
RECURSIVE SubDays(_, _)
SubDays(dt, n) == IF n = 0 THEN dt ELSE SubDays(PrevDay(dt), n - 1)

(***************************************************************************)
(* Idle values of the variables a specification does not use.              *)
(***************************************************************************)
NoDate == DateTime(BaseYear, 1, 1, 0)

DatesIdle == start_date = NoDate /\ end_date = NoDate
MonthsIdle == ym = 0 /\ year_months = <<>> /\ rollovers = 0 /\ zeroMonths = 0
ParseIdle == r = 0 /\ data = <<>>
RunIdle ==
    /\ site = {} /\ k = 0 /\ months_to_fetch = <<>> /\ html_content = <<None, None>>
    /\ requested = <<>> /\ files = {} /\ partial = {} /\ failures = 0 /\ unwritable = {}
FilterIdle == all_data = <<>> /\ filtered_data = <<>>
PinyinIdle == inputStr = <<>> /\ modifiedStr = <<>> /\ pinyinList = <<>> /\ pinyin = ""

(***************************************************************************)
(* _get_month_list                                                         *)
(***************************************************************************)
\* str(month).zfill(2)
zfill2(s) == IF Len(s) < 2 THEN "0" \o s ELSE s

\* f"{year}{str(month).zfill(2)}"
FormatYearMonth(year, month) == ToString(year) \o zfill2(ToString(month))

\* start_date.year * 100 + start_date.month
EncodeYm(dt) == dt.year * 100 + dt.month

\* the test `if month > 12`
RolloverTaken(month) == month > 12

\* the body of the loop for one ym: the token appended
MonthToken(v) ==
    LET year == v \div 100
        month == v % 100
    IN IF RolloverTaken(month)
       THEN FormatYearMonth(year + 1, 1)
       ELSE FormatYearMonth(year, month)

\* the whole function, as the loop computes it
RECURSIVE MonthListFrom(_, _)
MonthListFrom(v, end_ym) ==
    IF v > end_ym THEN <<>> ELSE <<MonthToken(v)>> \o MonthListFrom(v + 1, end_ym)

get_month_list(s, e) == MonthListFrom(EncodeYm(s), EncodeYm(e))

DaySamples == {1, 28}

MonthInputs ==
    {DateTime(y, m, d, 0) : y \in Years, m \in 1..12, d \in DaySamples}

InitMonths ==
    /\ pc = "months_loop"
    /\ start_date \in MonthInputs
    /\ end_date \in MonthInputs
    /\ DtLeq(start_date, end_date)
    /\ ym = EncodeYm(start_date)
    /\ year_months = <<>>
    /\ rollovers = 0
    /\ zeroMonths = 0
    /\ ParseIdle /\ RunIdle /\ FilterIdle /\ PinyinIdle

\* one iteration of `for ym in range(start_ym, end_ym + 1)`
MonthLoopStep ==
    /\ pc = "months_loop"
    /\ ym <= EncodeYm(end_date)
    /\ year_months' = Append(year_months, MonthToken(ym))
    /\ rollovers' = IF RolloverTaken(ym % 100) THEN rollovers + 1 ELSE rollovers
    /\ zeroMonths' = IF ym % 100 = 0 THEN zeroMonths + 1 ELSE zeroMonths
    /\ ym' = ym + 1
    /\ UNCHANGED <<pc, start_date, end_date, parseVars, runVars, filterVars, pinyinVars>>

\* the range is exhausted: `return year_months`
MonthLoopReturn ==
    /\ pc = "months_loop"
    /\ ym > EncodeYm(end_date)
    /\ pc' = "months_done"
    /\ UNCHANGED <<start_date, end_date, monthVars, parseVars, runVars, filterVars, pinyinVars>>

NextMonths == MonthLoopStep \/ MonthLoopReturn

SpecMonths == InitMonths /\ [][NextMonths]_vars

(***************************************************************************)
(* Claims about _get_month_list (specification SpecMonths)                 *)
(***************************************************************************)
\* the calendar months from the month of s to the month of e, in order,
\* counted on the month index year * 12 + (month - 1)
MonthIndex(dt) == dt.year * 12 + (dt.month - 1)

CalendarMonths(s, e) ==
    [i \in 1 .. (MonthIndex(e) - MonthIndex(s) + 1) |->
        LET idx == MonthIndex(s) + i - 1
        IN ToString((idx \div 12) * 100 + (idx % 12) + 1)]

\* C1: when _get_month_list returns, year_months is exactly the calendar
\* months touched by [start_date, end_date]: one 'YYYYMM' token per month, in
\* chronological order, without duplicates or extra tokens (a single token
\* when both dates lie in the same month).
C1_MonthListIsCalendarMonths ==
    pc = "months_done" => year_months = CalendarMonths(start_date, end_date)

\* C10: the rollover branch is never entered, and every ym the loop visits
\* decodes to a month in 1..12.
C10_RolloverNeverTaken ==
    /\ rollovers = 0
    /\ zeroMonths = 0
    /\ (pc = "months_loop" /\ ym <= EncodeYm(end_date)) => (ym % 100) \in 1..12

(***************************************************************************)
(* Text: sequences of one-character strings.  A character outside          *)
(* printable ASCII is named by its code point, "U" and four or more        *)
(* hexadecimal digits ("U00A0", the no-break space), except the tab, line  *)
(* feed, form feed and carriage return, written "\t", "\n", "\f", "\r".    *)
(***************************************************************************)
YearMark == "U5E74"
MonthMark == "U6708"
DayMark == "U65E5"

\* the ASCII digits, the classes [0-9] and [1-9] of the format's patterns
DigitChars == <<"0", "1", "2", "3", "4", "5", "6", "7", "8", "9">>

IsAsciiDigit(c) == \E i \in 1..10 : DigitChars[i] = c

DigitChar(n) == DigitChars[n + 1]

\* the decimal digits of Unicode, zero to nine of each script: the characters
\* that \d of a str pattern matches and that int() reads
DecimalDigits ==
    {<<"0", "1", "2", "3", "4", "5", "6", "7", "8", "9">>,
     <<"U0660", "U0661", "U0662", "U0663", "U0664", "U0665", "U0666", "U0667", "U0668", "U0669">>,
     <<"U06F0", "U06F1", "U06F2", "U06F3", "U06F4", "U06F5", "U06F6", "U06F7", "U06F8", "U06F9">>,
     <<"U07C0", "U07C1", "U07C2", "U07C3", "U07C4", "U07C5", "U07C6", "U07C7", "U07C8", "U07C9">>,
     <<"U0966", "U0967", "U0968", "U0969", "U096A", "U096B", "U096C", "U096D", "U096E", "U096F">>,
     <<"U09E6", "U09E7", "U09E8", "U09E9", "U09EA", "U09EB", "U09EC", "U09ED", "U09EE", "U09EF">>,
     <<"U0A66", "U0A67", "U0A68", "U0A69", "U0A6A", "U0A6B", "U0A6C", "U0A6D", "U0A6E", "U0A6F">>,
     <<"U0AE6", "U0AE7", "U0AE8", "U0AE9", "U0AEA", "U0AEB", "U0AEC", "U0AED", "U0AEE", "U0AEF">>,
     <<"U0B66", "U0B67", "U0B68", "U0B69", "U0B6A", "U0B6B", "U0B6C", "U0B6D", "U0B6E", "U0B6F">>,
     <<"U0BE6", "U0BE7", "U0BE8", "U0BE9", "U0BEA", "U0BEB", "U0BEC", "U0BED", "U0BEE", "U0BEF">>,
     <<"U0C66", "U0C67", "U0C68", "U0C69", "U0C6A", "U0C6B", "U0C6C", "U0C6D", "U0C6E", "U0C6F">>,
     <<"U0CE6", "U0CE7", "U0CE8", "U0CE9", "U0CEA", "U0CEB", "U0CEC", "U0CED", "U0CEE", "U0CEF">>,
     <<"U0D66", "U0D67", "U0D68", "U0D69", "U0D6A", "U0D6B", "U0D6C", "U0D6D", "U0D6E", "U0D6F">>,
     <<"U0DE6", "U0DE7", "U0DE8", "U0DE9", "U0DEA", "U0DEB", "U0DEC", "U0DED", "U0DEE", "U0DEF">>,
     <<"U0E50", "U0E51", "U0E52", "U0E53", "U0E54", "U0E55", "U0E56", "U0E57", "U0E58", "U0E59">>,
     <<"U0ED0", "U0ED1", "U0ED2", "U0ED3", "U0ED4", "U0ED5", "U0ED6", "U0ED7", "U0ED8", "U0ED9">>,
     <<"U0F20", "U0F21", "U0F22", "U0F23", "U0F24", "U0F25", "U0F26", "U0F27", "U0F28", "U0F29">>,
     <<"U1040", "U1041", "U1042", "U1043", "U1044", "U1045", "U1046", "U1047", "U1048", "U1049">>,
     <<"U1090", "U1091", "U1092", "U1093", "U1094", "U1095", "U1096", "U1097", "U1098", "U1099">>,
     <<"U17E0", "U17E1", "U17E2", "U17E3", "U17E4", "U17E5", "U17E6", "U17E7", "U17E8", "U17E9">>,
     <<"U1810", "U1811", "U1812", "U1813", "U1814", "U1815", "U1816", "U1817", "U1818", "U1819">>,
     <<"U1946", "U1947", "U1948", "U1949", "U194A", "U194B", "U194C", "U194D", "U194E", "U194F">>,
     <<"U19D0", "U19D1", "U19D2", "U19D3", "U19D4", "U19D5", "U19D6", "U19D7", "U19D8", "U19D9">>,
     <<"U1A80", "U1A81", "U1A82", "U1A83", "U1A84", "U1A85", "U1A86", "U1A87", "U1A88", "U1A89">>,
     <<"U1A90", "U1A91", "U1A92", "U1A93", "U1A94", "U1A95", "U1A96", "U1A97", "U1A98", "U1A99">>,
     <<"U1B50", "U1B51", "U1B52", "U1B53", "U1B54", "U1B55", "U1B56", "U1B57", "U1B58", "U1B59">>,
     <<"U1BB0", "U1BB1", "U1BB2", "U1BB3", "U1BB4", "U1BB5", "U1BB6", "U1BB7", "U1BB8", "U1BB9">>,
     <<"U1C40", "U1C41", "U1C42", "U1C43", "U1C44", "U1C45", "U1C46", "U1C47", "U1C48", "U1C49">>,
     <<"U1C50", "U1C51", "U1C52", "U1C53", "U1C54", "U1C55", "U1C56", "U1C57", "U1C58", "U1C59">>,
     <<"UA620", "UA621", "UA622", "UA623", "UA624", "UA625", "UA626", "UA627", "UA628", "UA629">>,
     <<"UA8D0", "UA8D1", "UA8D2", "UA8D3", "UA8D4", "UA8D5", "UA8D6", "UA8D7", "UA8D8", "UA8D9">>,
     <<"UA900", "UA901", "UA902", "UA903", "UA904", "UA905", "UA906", "UA907", "UA908", "UA909">>,
     <<"UA9D0", "UA9D1", "UA9D2", "UA9D3", "UA9D4", "UA9D5", "UA9D6", "UA9D7", "UA9D8", "UA9D9">>,
     <<"UA9F0", "UA9F1", "UA9F2", "UA9F3", "UA9F4", "UA9F5", "UA9F6", "UA9F7", "UA9F8", "UA9F9">>,
     <<"UAA50", "UAA51", "UAA52", "UAA53", "UAA54", "UAA55", "UAA56", "UAA57", "UAA58", "UAA59">>,
     <<"UABF0", "UABF1", "UABF2", "UABF3", "UABF4", "UABF5", "UABF6", "UABF7", "UABF8", "UABF9">>,
     <<"UFF10", "UFF11", "UFF12", "UFF13", "UFF14", "UFF15", "UFF16", "UFF17", "UFF18", "UFF19">>,
     <<"U104A0", "U104A1", "U104A2", "U104A3", "U104A4", "U104A5", "U104A6", "U104A7", "U104A8", "U104A9">>,
     <<"U10D30", "U10D31", "U10D32", "U10D33", "U10D34", "U10D35", "U10D36", "U10D37", "U10D38", "U10D39">>,
     <<"U11066", "U11067", "U11068", "U11069", "U1106A", "U1106B", "U1106C", "U1106D", "U1106E", "U1106F">>,
     <<"U110F0", "U110F1", "U110F2", "U110F3", "U110F4", "U110F5", "U110F6", "U110F7", "U110F8", "U110F9">>,
     <<"U11136", "U11137", "U11138", "U11139", "U1113A", "U1113B", "U1113C", "U1113D", "U1113E", "U1113F">>,
     <<"U111D0", "U111D1", "U111D2", "U111D3", "U111D4", "U111D5", "U111D6", "U111D7", "U111D8", "U111D9">>,
     <<"U112F0", "U112F1", "U112F2", "U112F3", "U112F4", "U112F5", "U112F6", "U112F7", "U112F8", "U112F9">>,
     <<"U11450", "U11451", "U11452", "U11453", "U11454", "U11455", "U11456", "U11457", "U11458", "U11459">>,
     <<"U114D0", "U114D1", "U114D2", "U114D3", "U114D4", "U114D5", "U114D6", "U114D7", "U114D8", "U114D9">>,
     <<"U11650", "U11651", "U11652", "U11653", "U11654", "U11655", "U11656", "U11657", "U11658", "U11659">>,
     <<"U116C0", "U116C1", "U116C2", "U116C3", "U116C4", "U116C5", "U116C6", "U116C7", "U116C8", "U116C9">>,
     <<"U11730", "U11731", "U11732", "U11733", "U11734", "U11735", "U11736", "U11737", "U11738", "U11739">>,
     <<"U118E0", "U118E1", "U118E2", "U118E3", "U118E4", "U118E5", "U118E6", "U118E7", "U118E8", "U118E9">>,
     <<"U11950", "U11951", "U11952", "U11953", "U11954", "U11955", "U11956", "U11957", "U11958", "U11959">>,
     <<"U11C50", "U11C51", "U11C52", "U11C53", "U11C54", "U11C55", "U11C56", "U11C57", "U11C58", "U11C59">>,
     <<"U11D50", "U11D51", "U11D52", "U11D53", "U11D54", "U11D55", "U11D56", "U11D57", "U11D58", "U11D59">>,
     <<"U11DA0", "U11DA1", "U11DA2", "U11DA3", "U11DA4", "U11DA5", "U11DA6", "U11DA7", "U11DA8", "U11DA9">>,
     <<"U16A60", "U16A61", "U16A62", "U16A63", "U16A64", "U16A65", "U16A66", "U16A67", "U16A68", "U16A69">>,
     <<"U16AC0", "U16AC1", "U16AC2", "U16AC3", "U16AC4", "U16AC5", "U16AC6", "U16AC7", "U16AC8", "U16AC9">>,
     <<"U16B50", "U16B51", "U16B52", "U16B53", "U16B54", "U16B55", "U16B56", "U16B57", "U16B58", "U16B59">>,
     <<"U1D7CE", "U1D7CF", "U1D7D0", "U1D7D1", "U1D7D2", "U1D7D3", "U1D7D4", "U1D7D5", "U1D7D6", "U1D7D7">>,
     <<"U1D7D8", "U1D7D9", "U1D7DA", "U1D7DB", "U1D7DC", "U1D7DD", "U1D7DE", "U1D7DF", "U1D7E0", "U1D7E1">>,
     <<"U1D7E2", "U1D7E3", "U1D7E4", "U1D7E5", "U1D7E6", "U1D7E7", "U1D7E8", "U1D7E9", "U1D7EA", "U1D7EB">>,
     <<"U1D7EC", "U1D7ED", "U1D7EE", "U1D7EF", "U1D7F0", "U1D7F1", "U1D7F2", "U1D7F3", "U1D7F4", "U1D7F5">>,
     <<"U1D7F6", "U1D7F7", "U1D7F8", "U1D7F9", "U1D7FA", "U1D7FB", "U1D7FC", "U1D7FD", "U1D7FE", "U1D7FF">>,
     <<"U1E140", "U1E141", "U1E142", "U1E143", "U1E144", "U1E145", "U1E146", "U1E147", "U1E148", "U1E149">>,
     <<"U1E2F0", "U1E2F1", "U1E2F2", "U1E2F3", "U1E2F4", "U1E2F5", "U1E2F6", "U1E2F7", "U1E2F8", "U1E2F9">>,
     <<"U1E950", "U1E951", "U1E952", "U1E953", "U1E954", "U1E955", "U1E956", "U1E957", "U1E958", "U1E959">>,
     <<"U1FBF0", "U1FBF1", "U1FBF2", "U1FBF3", "U1FBF4", "U1FBF5", "U1FBF6", "U1FBF7", "U1FBF8", "U1FBF9">>}

\* the value int() gives each decimal digit
DecimalValue ==
    [c \in UNION {{run[i] : i \in 1..10} : run \in DecimalDigits} |->
        (CHOOSE i \in 1..10 : \E run \in DecimalDigits : run[i] = c) - 1]

\* \d of the format's patterns
IsDigit(c) == c \in DOMAIN DecimalValue

DigitVal(c) == DecimalValue[c]

\* the characters of which str.isspace() is true: what strip() removes and
\* split() splits at
Whitespace ==
    {"\t", "\n", "U000B", "\f", "\r", "U001C", "U001D", "U001E",
     "U001F", " ", "U0085", "U00A0", "U1680", "U2000", "U2001", "U2002",
     "U2003", "U2004", "U2005", "U2006", "U2007", "U2008", "U2009", "U200A",
     "U2028", "U2029", "U202F", "U205F", "U3000"}

IsSpace(c) == c \in Whitespace

\* str.strip()
RECURSIVE LStrip(_)
LStrip(t) == IF t # <<>> /\ IsSpace(Head(t)) THEN LStrip(Tail(t)) ELSE t

RECURSIVE RStrip(_)
RStrip(t) ==
    IF t # <<>> /\ IsSpace(t[Len(t)]) THEN RStrip(SubSeq(t, 1, Len(t) - 1)) ELSE t

Strip(t) == RStrip(LStrip(t))

\* ' '.join(text.split()): the words of the text, one space between them
RECURSIVE CollapseFrom(_, _, _)
CollapseFrom(t, acc, pending) ==
    IF t = <<>> THEN acc
    ELSE IF IsSpace(Head(t)) THEN CollapseFrom(Tail(t), acc, acc # <<>>)
    ELSE CollapseFrom(Tail(t),
                      (IF pending THEN Append(acc, " ") ELSE acc) \o <<Head(t)>>,
                      FALSE)

Collapse(t) == CollapseFrom(t, <<>>, FALSE)

\* c.get_text(strip=True) of a cell holding one text node
GetText(cell) == Strip(cell)

(***************************************************************************)
(* datetime.strptime(date_str, "%Y<year mark>%m<month mark>%d<day mark>")  *)
(***************************************************************************)
\* %Y: \d\d\d\d, four decimal digits of any script
YearField(t) ==
    IF Len(t) >= 4 /\ \A i \in 1..4 : IsDigit(t[i])
    THEN 1000 * DigitVal(t[1]) + 100 * DigitVal(t[2]) + 10 * DigitVal(t[3]) + DigitVal(t[4])
    ELSE -1

\* %m at position p: 1[0-2] | 0[1-9] | [1-9]; the length matched so that the
\* month mark follows, or 0
MonthLen(t, p) ==
    IF /\ Len(t) >= p + 2 /\ t[p + 2] = MonthMark
       /\ \/ t[p] = "1" /\ t[p + 1] \in {"0", "1", "2"}
          \/ t[p] = "0" /\ IsAsciiDigit(t[p + 1]) /\ t[p + 1] # "0"
    THEN 2
    ELSE IF Len(t) >= p + 1 /\ t[p + 1] = MonthMark /\ IsAsciiDigit(t[p]) /\ t[p] # "0"
    THEN 1
    ELSE 0

\* %d at position p: 3[01] | [12]\d | 0[1-9] | [1-9] | <space>[1-9]; the
\* length matched so that the day mark follows, or 0.  Only the \d after 1
\* or 2 takes a digit of any script.
DayLen(t, p) ==
    IF /\ Len(t) >= p + 2 /\ t[p + 2] = DayMark
       /\ \/ t[p] = "3" /\ t[p + 1] \in {"0", "1"}
          \/ t[p] \in {"1", "2"} /\ IsDigit(t[p + 1])
          \/ t[p] \in {"0", " "} /\ IsAsciiDigit(t[p + 1]) /\ t[p + 1] # "0"
    THEN 2
    ELSE IF Len(t) >= p + 1 /\ t[p + 1] = DayMark /\ IsAsciiDigit(t[p]) /\ t[p] # "0"
    THEN 1
    ELSE 0

\* the value of a field of one or two characters (a leading space counts 0)
FieldVal(t, p, n) ==
    IF n = 1 THEN DigitVal(t[p])
    ELSE (IF t[p] = " " THEN 0 ELSE 10 * DigitVal(t[p])) + DigitVal(t[p + 1])

\* the datetime parsed, or None where strptime raises ValueError
strptime(t) ==
    LET y == YearField(t)
        ml == IF y >= 0 /\ Len(t) >= 5 /\ t[5] = YearMark THEN MonthLen(t, 6) ELSE 0
        dl == IF ml > 0 THEN DayLen(t, 7 + ml) ELSE 0
    IN IF dl = 0 \/ Len(t) # 7 + ml + dl THEN None
       ELSE LET m == FieldVal(t, 6, ml)
                d == FieldVal(t, 7 + ml, dl)
            IN IF y < 1 \/ d > DaysInMonth(y, m) THEN None
               ELSE Some(DateTime(y, m, d, 0))

(***************************************************************************)
(* _parse_html_to_data                                                     *)
(***************************************************************************)
\* index of the first '/' of the text, 0 when there is none
RECURSIVE FirstSlashFrom(_, _)
FirstSlashFrom(t, i) ==
    IF i > Len(t) THEN 0 ELSE IF t[i] = "/" THEN i ELSE FirstSlashFrom(t, i + 1)

\* variant: the cut at the last '/', as rsplit('/', 1) makes it
RECURSIVE LastSlashFrom(_, _)
LastSlashFrom(t, i) ==
    IF i < 1 THEN 0 ELSE IF t[i] = "/" THEN i ELSE LastSlashFrom(t, i - 1)

SplitAtLastSlash(t) == LastSlashFrom(t, Len(t))

\* where text.split('/', 1) cuts
SplitPoint(t) == FirstSlashFrom(t, 1)

\* [x.strip() for x in text.split('/', 1)] if '/' in text, else (text, '')
SplitPair(t) ==
    LET i == SplitPoint(t)
    IN IF i > 0
       THEN <<Strip(SubSeq(t, 1, i - 1)), Strip(SubSeq(t, i + 1, Len(t)))>>
       ELSE <<t, <<>>>>

\* col_texts of a row: every cell's text, cleaned
ColTexts(row) == [i \in 1..Len(row) |-> Collapse(GetText(row[i]))]

\* variant: `>=` written for `==`
RowAcceptedAtLeast4(col_texts) == Len(col_texts) >= 4

\* the test `if len(col_texts) == 4`
RowAccepted(col_texts) == Len(col_texts) = 4

\* the body of the loop for one row: the records it appends (none or one)
ParseRow(row) ==
    LET col_texts == ColTexts(row)
    IN IF ~RowAccepted(col_texts) THEN <<>>
       ELSE LET date_dt == strptime(col_texts[1])
                temp == SplitPair(col_texts[3])
                wind == SplitPair(col_texts[4])
            IN IF date_dt = None THEN <<>>
               ELSE << [date |-> date_dt[1],
                        weather_day_night |-> col_texts[2],
                        high_temp |-> temp[1],
                        low_temp |-> temp[2],
                        wind_day |-> wind[1],
                        wind_night |-> wind[2]] >>

RECURSIVE ParseRowsFrom(_, _)
ParseRowsFrom(rows, i) ==
    IF i > Len(rows) THEN <<>> ELSE ParseRow(rows[i]) \o ParseRowsFrom(rows, i + 1)

\* variant: the guard left out
ContentNeverAbsent(hc) == FALSE

\* the test `if not html_content[0]`
ContentAbsent(hc) == hc[1] = None

\* the early returns: no content, no div.wdetail, no table.b under it
ReturnsEarly(hc) ==
    IF ContentAbsent(hc) THEN TRUE ELSE ~hc[1][1].div \/ ~hc[1][1].table

\* the whole function: the records returned; BeautifulSoup raises when it is
\* handed None for the document
parse_html_to_data(hc) ==
    IF ContentAbsent(hc) THEN [raised |-> FALSE, data |-> <<>>]
    ELSE IF hc[1] = None THEN [raised |-> TRUE, data |-> <<>>]
    ELSE IF ~hc[1][1].div \/ ~hc[1][1].table THEN [raised |-> FALSE, data |-> <<>>]
    ELSE [raised |-> FALSE, data |-> ParseRowsFrom(hc[1][1].rows, 2)]

(***************************************************************************)
(* Sample documents                                                        *)
(***************************************************************************)
MaxRows == 3

\* the decimal digits of n, at least two of them
TwoDigits(n) == <<DigitChar((n \div 10) % 10), DigitChar(n % 10)>>

FourDigits(n) == TwoDigits(n \div 100) \o TwoDigits(n % 100)

\* a date cell as the site prints it: zero-padded month and day
SiteDateText(dt) ==
    FourDigits(dt.year) \o <<YearMark>> \o TwoDigits(dt.month) \o <<MonthMark>>
        \o TwoDigits(dt.day) \o <<DayMark>>

SampleYear == BaseYear + 1

\* the full-width digits
WideDigits == CHOOSE run \in DecimalDigits : run[1] = "UFF10"

FourWideDigits(n) ==
    [i \in 1..4 |-> WideDigits[((n \div (10 ^ (4 - i))) % 10) + 1]]

DateCells ==
    [ padded    |-> SiteDateText(DateTime(SampleYear, 1, 5, 0)),
      unpadded  |-> FourDigits(SampleYear) \o <<YearMark, "1", MonthMark, "5", DayMark>>,
      spaced    |-> <<"U3000", "\r", "\n">> \o FourDigits(SampleYear)
                        \o <<YearMark, "1", "2", MonthMark, " ", "7", DayMark, "U00A0">>,
      wide      |-> FourWideDigits(SampleYear)
                        \o <<YearMark, "1", MonthMark, "2", "U0663", DayMark>>,
      widemonth |-> FourDigits(SampleYear)
                        \o <<YearMark, "UFF11", MonthMark, "1", "UFF15", DayMark>>,
      month13   |-> FourDigits(SampleYear) \o <<YearMark, "1", "3", MonthMark, "5", DayMark>>,
      feb30     |-> SiteDateText(DateTime(SampleYear, 2, 30, 0)),
      trailing  |-> SiteDateText(DateTime(SampleYear, 1, 6, 0)) \o <<"x">>,
      heading   |-> <<DayMark, "U671F">> ]

TempCells ==
    [ plain   |-> <<"2", "5", "/", "1", "8">>,
      spaced  |-> <<"2", "5", "U00A0", "\n", "/", "U3000", "1", "8">>,
      padded  |-> <<"\f", "3", "U2003", "/", "U0085", "U000B", "1", "\t">>,
      single  |-> <<"2", "5">>,
      triple  |-> <<"3", "/", "2", "/", "1">>,
      bare    |-> <<"/">> ]

WeatherCell == <<"a", "U00A0", "\n", "/", "b">>

RowSamples ==
    { <<DateCells.padded, WeatherCell, TempCells.spaced, TempCells.plain>>,
      <<DateCells.unpadded, WeatherCell, TempCells.single, TempCells.single>>,
      <<DateCells.spaced, WeatherCell, TempCells.triple, TempCells.bare>>,
      <<DateCells.padded, WeatherCell, TempCells.plain>>,
      <<DateCells.padded, WeatherCell, TempCells.plain, TempCells.plain, TempCells.single>>,
      <<DateCells.month13, WeatherCell, TempCells.plain, TempCells.plain>>,
      <<DateCells.feb30, WeatherCell, TempCells.plain, TempCells.plain>>,
      <<DateCells.trailing, WeatherCell, TempCells.plain, TempCells.plain>>,
      <<DateCells.heading, WeatherCell, TempCells.single, TempCells.single>>,
      <<DateCells.wide, WeatherCell, TempCells.padded, TempCells.spaced>>,
      <<DateCells.widemonth, WeatherCell, TempCells.plain, TempCells.plain>> }

Encoding == "GB2312"

RECURSIVE SeqsUpTo(_, _)
SeqsUpTo(S, n) ==
    IF n = 0 THEN {<<>>}
    ELSE LET shorter == SeqsUpTo(S, n - 1)
         IN shorter \cup {Append(q, x) : q \in shorter, x \in S}

Document(div, table, rows) == [div |-> div, table |-> table, rows |-> rows]

\* the pair (response.content, encoding)
Fetched(doc) == <<Some(doc), Some(Encoding)>>

ParseInputs ==
    {<<None, None>>}
        \cup {Fetched(Document(TRUE, TRUE, rows)) : rows \in SeqsUpTo(RowSamples, MaxRows)}
        \cup {Fetched(Document(FALSE, FALSE, <<>>)), Fetched(Document(TRUE, FALSE, <<>>))}

(***************************************************************************)
(* Specification SpecParse: _parse_html_to_data on one html_content, row   *)
(* by row.                                                                 *)
(***************************************************************************)
InitParse ==
    /\ pc = "parse_begin"
    /\ html_content \in ParseInputs
    /\ r = 0
    /\ data = <<>>
    /\ DatesIdle /\ MonthsIdle /\ FilterIdle /\ PinyinIdle
    /\ site = {} /\ k = 0 /\ months_to_fetch = <<>>
    /\ requested = <<>> /\ files = {} /\ partial = {} /\ failures = 0 /\ unwritable = {}

parseFrame ==
    <<start_date, end_date, monthVars, filterVars, pinyinVars,
      site, k, months_to_fetch, html_content, requested, files, partial, failures, unwritable>>

\* the early returns: no content, no div.wdetail, no table.b
ParseReturnEmpty ==
    /\ pc = "parse_begin"
    /\ ReturnsEarly(html_content)
    /\ pc' = "parse_done"
    /\ UNCHANGED <<r, data, parseFrame>>

\* rows = table.find_all('tr'); data = []; the loop starts at rows[1:]
ParseEnterLoop ==
    /\ pc = "parse_begin"
    /\ ~ReturnsEarly(html_content)
    /\ r' = 2
    /\ data' = <<>>
    /\ pc' = "parse_loop"
    /\ UNCHANGED parseFrame

\* one iteration of `for tr in rows[1:]`
ParseRowStep ==
    /\ pc = "parse_loop"
    /\ r <= Len(html_content[1][1].rows)
    /\ data' = data \o ParseRow(html_content[1][1].rows[r])
    /\ r' = r + 1
    /\ UNCHANGED <<pc, parseFrame>>

\* `return data`
ParseReturn ==
    /\ pc = "parse_loop"
    /\ r > Len(html_content[1][1].rows)
    /\ pc' = "parse_done"
    /\ UNCHANGED <<r, data, parseFrame>>

NextParse == ParseReturnEmpty \/ ParseEnterLoop \/ ParseRowStep \/ ParseReturn

SpecParse == InitParse /\ [][NextParse]_vars

(***************************************************************************)
(* Claims about _parse_html_to_data (specification SpecParse)              *)
(***************************************************************************)
CalendarDays ==
    {DateTime(y, m, d, 0) : y \in Years, m \in 1..12, d \in 1..31}

\* x writes the month m: one or two ASCII digits, a leading zero allowed
MonthText(x, m) ==
    x \in {TwoDigits(m)} \cup (IF m < 10 THEN {<<DigitChar(m)>>} ELSE {})

\* x writes the day d: one or two ASCII digits, a leading zero or a leading
\* space allowed; after a leading 1 or 2 the second digit may be the decimal
\* digit of any script
DayText(x, d) ==
    \/ x \in {TwoDigits(d)}
            \cup (IF d < 10 THEN {<<DigitChar(d)>>, <<" ", DigitChar(d)>>} ELSE {})
    \/ /\ d \in 10..29
       /\ Len(x) = 2
       /\ x[1] = DigitChar(d \div 10)
       /\ \E run \in DecimalDigits : x[2] = run[(d % 10) + 1]

\* x writes the year y: four decimal digits of any script
YearText(x, y) ==
    /\ Len(x) = 4
    /\ \A i \in 1..4 : \E run \in DecimalDigits :
            x[i] = run[((y \div (10 ^ (4 - i))) % 10) + 1]

\* the date text t writes the calendar day dt in the form
\* YYYY<year mark>M<month mark>D<day mark>
Denotes(t, dt) ==
    /\ dt.day <= DaysInMonth(dt.year, dt.month)
    /\ \E ml \in 1..2, dl \in 1..2 :
        /\ Len(t) = 7 + ml + dl
        /\ YearText(SubSeq(t, 1, 4), dt.year)
        /\ t[5] = YearMark
        /\ MonthText(SubSeq(t, 6, 5 + ml), dt.month)
        /\ t[6 + ml] = MonthMark
        /\ DayText(SubSeq(t, 7 + ml, 6 + ml + dl), dt.day)
        /\ t[7 + ml + dl] = DayMark

\* the cleaned date texts of the sample rows, each with the calendar days it
\* writes (none or one)
SampleDateTexts == {ColTexts(row)[1] : row \in RowSamples}

Denotation == [t \in SampleDateTexts |-> {dt \in CalendarDays : Denotes(t, dt)}]

ParseableTexts == {t \in SampleDateTexts : Denotation[t] # {}}

\* the rows among rows[2..upto] that have exactly 4 cells and a parseable date
ValidRows(rows, upto) ==
    SelectSeq([i \in 1..upto |-> i],
              LAMBDA i : /\ i >= 2
                         /\ Len(rows[i]) = 4
                         /\ ColTexts(rows[i])[1] \in ParseableTexts)

ParsedRows == html_content[1][1].rows

InParseLoop == pc \in {"parse_loop", "parse_done"} /\ ~ReturnsEarly(html_content)

\* C5: the first row is skipped, and data holds one record for each later row
\* with exactly 4 cells and a parseable date, in document order, and nothing
\* else; a row with another number of cells or an unparseable date adds no
\* record and stops neither the loop nor the records of later rows.
C5_OneRecordPerValidRow ==
    InParseLoop =>
        LET idx == ValidRows(ParsedRows, r - 1)
        IN /\ pc = "parse_done" => r = Len(ParsedRows) + 1 \/ Len(ParsedRows) < 2
           /\ Len(data) = Len(idx)
           /\ \A j \in 1..Len(idx) :
                /\ data[j].date \in Denotation[ColTexts(ParsedRows[idx[j]])[1]]
                /\ data[j].weather_day_night = ColTexts(ParsedRows[idx[j]])[2]

\* a header that looks like a data row, then a row of 3 or 5 cells, then a
\* valid row: one record
C5_Witness ==
    /\ pc = "parse_done"
    /\ ~ReturnsEarly(html_content)
    /\ Len(ParsedRows) = 3
    /\ Len(ParsedRows[1]) = 4
    /\ Len(ParsedRows[2]) # 4
    /\ Len(data) = 1

HasSlash(t) == \E i \in 1..Len(t) : t[i] = "/"

FirstSlash(t) == CHOOSE i \in 1..Len(t) : t[i] = "/" /\ \A j \in 1..(i - 1) : t[j] # "/"

\* s is x without its leading and trailing whitespace
IsStripOf(s, x) ==
    \E a \in 0..Len(x), b \in 0..Len(x) :
        /\ a + b <= Len(x)
        /\ s = SubSeq(x, a + 1, Len(x) - b)
        /\ \A i \in 1..a : IsSpace(x[i])
        /\ \A i \in (Len(x) - b + 1)..Len(x) : IsSpace(x[i])
        /\ s # <<>> => ~IsSpace(s[1]) /\ ~IsSpace(s[Len(s)])

\* the two parts are the text left and right of the first '/', as written
ExactSplit(t, first, second) ==
    IF HasSlash(t)
    THEN /\ first = SubSeq(t, 1, FirstSlash(t) - 1)
         /\ second = SubSeq(t, FirstSlash(t) + 1, Len(t))
    ELSE first = t /\ second = <<>>

\* the two parts are the text left and right of the first '/', stripped
StrippedSplit(t, first, second) ==
    IF HasSlash(t)
    THEN /\ IsStripOf(first, SubSeq(t, 1, FirstSlash(t) - 1))
         /\ IsStripOf(second, SubSeq(t, FirstSlash(t) + 1, Len(t)))
    ELSE first = t /\ second = <<>>

\* the split, exact or stripped, that a claim states of a cell text
Split(exact, t, first, second) ==
    IF exact THEN ExactSplit(t, first, second) ELSE StrippedSplit(t, first, second)

\* the split holds of the temperature and wind cells of every record
SplitHolds(exact) ==
    InParseLoop =>
        LET idx == ValidRows(ParsedRows, r - 1)
        IN Len(data) = Len(idx) /\
           \A j \in 1..Len(idx) :
             LET col_texts == ColTexts(ParsedRows[idx[j]])
             IN /\ Split(exact, col_texts[3], data[j].high_temp, data[j].low_temp)
                /\ Split(exact, col_texts[4], data[j].wind_day, data[j].wind_night)

\* C7: for every temperature and wind cell text t, high (day) is the text
\* left of the first '/' and low (night) the whole text right of it, exactly
\* as written; without a '/', high = t and low is empty.
C7_SplitExactlyAsWritten == SplitHolds(TRUE)

\* C7 (amended): high (day) is the text left of the first '/' and low (night)
\* the whole text right of it, each with its leading and trailing whitespace
\* stripped; without a '/', high = t and low is empty.
C7_SplitStripped == SplitHolds(FALSE)

\* a record parsed from a temperature cell "25 / 18" and one from "3/2/1"
C7_Witness ==
    /\ pc = "parse_done"
    /\ ~ReturnsEarly(html_content)
    /\ Len(data) = 2
    /\ ColTexts(ParsedRows[2])[3] = <<"2", "5", " ", "/", " ", "1", "8">>
    /\ data[1].high_temp = <<"2", "5">>
    /\ data[1].low_temp = <<"1", "8">>
    /\ data[2].high_temp = <<"3">>
    /\ data[2].low_temp = <<"2", "/", "1">>
    /\ data[2].wind_day = <<>>

(***************************************************************************)
(* _filter_data_by_date                                                    *)
(***************************************************************************)
\* variant: `<` written for the first `<=`
InWindowStrictStart(d, s, e) == DtLess(s, d) /\ DtLeq(d, e)

\* the test `start_date <= d['date'] <= end_date`
InWindow(d, s, e) == DtLeq(s, d) /\ DtLeq(d, e)

\* the merge of two sorted runs from positions i and j on: the record of the
\* right run goes first only when it is earlier than that of the left run
RECURSIVE MergeFrom(_, _, _, _)
MergeFrom(a, b, i, j) ==
    IF i > Len(a) THEN SubSeq(b, j, Len(b))
    ELSE IF j > Len(b) THEN SubSeq(a, i, Len(a))
    ELSE IF DtLess(b[j].date, a[i].date) THEN <<b[j]>> \o MergeFrom(a, b, i, j + 1)
    ELSE <<a[i]>> \o MergeFrom(a, b, i + 1, j)

MergeByDate(a, b) == MergeFrom(a, b, 1, 1)

\* filtered.sort(key=lambda x: x['date']): a stable merge sort
RECURSIVE SortRange(_, _, _)
SortRange(seq, lo, hi) ==
    IF lo > hi THEN <<>>
    ELSE IF lo = hi THEN <<seq[lo]>>
    ELSE LET mid == (lo + hi) \div 2
         IN MergeByDate(SortRange(seq, lo, mid), SortRange(seq, mid + 1, hi))

SortByDate(seq) == SortRange(seq, 1, Len(seq))

\* the whole function
filter_data_by_date(d, s, e) ==
    SortByDate(SelectSeq(d, LAMBDA rec : InWindow(rec.date, s, e)))

(***************************************************************************)
(* Specification SpecFilter: _filter_data_by_date on one input             *)
(***************************************************************************)
MaxRecords == 3

FilterDays ==
    {DateTime(BaseYear, 12, 30, 0), DateTime(BaseYear, 12, 31, 0),
     DateTime(BaseYear + 1, 1, 1, 0)}

FilterBounds == {[d EXCEPT !.tod = t] : d \in FilterDays, t \in Tods}

FilterRecords ==
    {[date |-> d, weather_day_night |-> <<w>>, high_temp |-> <<"5">>,
      low_temp |-> <<"3">>, wind_day |-> <<"N">>, wind_night |-> <<>>] :
        d \in FilterDays, w \in {"a", "b"}}

InitFilter ==
    /\ pc = "filter_call"
    /\ all_data \in SeqsUpTo(FilterRecords, MaxRecords)
    /\ start_date \in FilterBounds
    /\ end_date \in FilterBounds
    /\ DtLeq(start_date, end_date)
    /\ filtered_data = <<>>
    /\ MonthsIdle /\ ParseIdle /\ RunIdle /\ PinyinIdle

\* the call _filter_data_by_date(data, start_date, end_date)
FilterCall ==
    /\ pc = "filter_call"
    /\ filtered_data' = filter_data_by_date(all_data, start_date, end_date)
    /\ pc' = "filter_done"
    /\ UNCHANGED <<start_date, end_date, all_data, monthVars, parseVars, runVars, pinyinVars>>

NextFilter == FilterCall

SpecFilter == InitFilter /\ [][NextFilter]_vars

\* the records of seq dated d, in their order in seq
DatedAt(seq, d) == SelectSeq(seq, LAMBDA rec : rec.date = d)

\* C3: the result holds exactly the input records r with
\* start_date <= r.date <= end_date (both ends included, each as often as in
\* the input), in ascending order of date, records of equal date in their
\* input order.
C3_FilterKeepsWindowSortedStable ==
    pc = "filter_done" =>
        /\ \A i \in 1..Len(filtered_data) :
             /\ ~DtLess(filtered_data[i].date, start_date)
             /\ ~DtLess(end_date, filtered_data[i].date)
        /\ \A i \in 1..(Len(filtered_data) - 1) :
             ~DtLess(filtered_data[i + 1].date, filtered_data[i].date)
        /\ \A d \in FilterDays :
             (~DtLess(d, start_date) /\ ~DtLess(end_date, d)) =>
                 DatedAt(filtered_data, d) = DatedAt(all_data, d)

\* an unsorted input: a later record first, then two different records of one
\* date, which is exactly start_date; all three are kept, the two in input order
C3_Witness ==
    /\ pc = "filter_done"
    /\ Len(all_data) = 3
    /\ DtLess(all_data[2].date, all_data[1].date)
    /\ all_data[2].date = all_data[3].date
    /\ all_data[2] # all_data[3]
    /\ all_data[2].date = start_date
    /\ filtered_data = <<all_data[2], all_data[3], all_data[1]>>

(***************************************************************************)
(* The remote site and _fetch_monthly_data                                 *)
(***************************************************************************)
MaxFailures == 2
LookbackDays == 30

City == "shenzhen"

\* dt + timedelta(days=1)
NextDay(dt) ==
    IF dt.day < DaysInMonth(dt.year, dt.month) THEN [dt EXCEPT !.day = dt.day + 1]
    ELSE IF dt.month < 12 THEN [dt EXCEPT !.month = dt.month + 1, !.day = 1]
    ELSE [dt EXCEPT !.year = dt.year + 1, !.month = 1, !.day = 1]

Midnight(dt) == [dt EXCEPT !.tod = 0]

\* the days around the two ends of the lookback window of a run started at now
DaysOfInterest(now) ==
    LET t == Midnight(now)
    IN {SubDays(t, LookbackDays + 1), SubDays(t, LookbackDays), t, NextDay(t)}

RECURSIVE DaysInOrder(_)
DaysInOrder(S) ==
    IF S = {} THEN <<>>
    ELSE LET first == CHOOSE d \in S : \A e \in S : DtLeq(d, e)
         IN <<first>> \o DaysInOrder(S \ {first})

HeaderRow == <<DateCells.heading, <<"w">>, <<"t">>, <<"f">>>>
BannerRow == <<<<"a", "d">>>>

SiteRow(day) == <<SiteDateText(day), <<"a">>, <<"5", " ", "/", " ", "3">>, <<"N">>>>

\* the page the site serves for a YearMonth token: the header, a one-cell
\* banner row, and one row for each of its days of that month
Page(token, days) ==
    LET mine == {d \in days : ToString(d.year * 100 + d.month) = token}
        ordered == DaysInOrder(mine)
    IN Document(TRUE, TRUE,
                <<HeaderRow, BannerRow>> \o [i \in 1..Len(ordered) |-> SiteRow(ordered[i])])

HtmlFile(token) == City \o token \o ".html"
ExcelFile == City \o "Last30DaysWeather.xlsx"

(***************************************************************************)
(* _write_to_excel                                                         *)
(***************************************************************************)
\* the negation of the early return `if not data: return`
WritesFile(d) == d # <<>>

(***************************************************************************)
(* Specification SpecRun: one run of GetWeatherData                        *)
(***************************************************************************)
RunYear == BaseYear + 1

\* the instants datetime.now() returns in the runs explored
NowSamples ==
    {DateTime(RunYear, 3, 31, t) : t \in Tods}
        \cup {DateTime(RunYear, 3, 15, t) : t \in Tods}
        \cup {DateTime(RunYear, 3, 1, t) : t \in Tods}
        \cup {DateTime(RunYear, 1, 15, t) : t \in Tods}

\* the paths a run started at now may write
RunPaths(now) ==
    LET months == get_month_list(SubDays(now, LookbackDays), now)
    IN {HtmlFile(months[i]) : i \in 1..Len(months)} \cup {ExcelFile}

\* the file systems explored: every path can be written, one path can not
\* (it is a directory, or read-only), or none can (output is not a directory)
FileSystems(now) == {{}, RunPaths(now)} \cup {{path} : path \in RunPaths(now)}

InitRun ==
    /\ pc = "run_start"
    /\ end_date \in NowSamples
    /\ site \in SUBSET DaysOfInterest(end_date)
    /\ start_date = NoDate
    /\ k = 0 /\ months_to_fetch = <<>> /\ html_content = <<None, None>>
    /\ requested = <<>> /\ files = {} /\ partial = {} /\ failures = 0
    /\ unwritable \in FileSystems(end_date)
    /\ MonthsIdle /\ ParseIdle /\ FilterIdle /\ PinyinIdle

\* the site and the file system stay as they are while a run lasts
runFrame == <<monthVars, parseVars, pinyinVars, site, unwritable>>

\* lines 21-27: today, start_date, months_to_fetch, all_data = []
RunStart ==
    /\ pc = "run_start"
    /\ start_date' = SubDays(end_date, LookbackDays)
    /\ months_to_fetch' = get_month_list(SubDays(end_date, LookbackDays), end_date)
    /\ all_data' = <<>>
    /\ k' = 1
    /\ pc' = "fetch"
    /\ UNCHANGED <<end_date, html_content, requested, files, partial, failures, filtered_data,
                   runFrame>>

\* _fetch_monthly_data: the request succeeds, an encoding is detected and the
\* page is saved under output/
FetchOk ==
    /\ pc = "fetch"
    /\ k <= Len(months_to_fetch)
    /\ HtmlFile(months_to_fetch[k]) \notin unwritable
    /\ requested' = Append(requested, months_to_fetch[k])
    /\ files' = files \cup {HtmlFile(months_to_fetch[k])}
    /\ partial' = partial \ {HtmlFile(months_to_fetch[k])}
    /\ html_content' = Fetched(Page(months_to_fetch[k], site))
    /\ pc' = "parse"
    /\ UNCHANGED <<start_date, end_date, months_to_fetch, k, all_data, filtered_data,
                   failures, runFrame>>

\* where a save that raises OSError fails: before the file exists (os.mkdir,
\* or the opening of the file), or in the writing, after the opening has
\* created or truncated the file
SaveFailures == {"open", "write"}

\* the files under output/ after a save of path that failed at stage
FilesAfterFailedSave(fs, path, stage) == IF stage = "write" THEN fs \cup {path} ELSE fs

\* _fetch_monthly_data: the request succeeds and an encoding is detected, but
\* os.mkdir, open or f.write raises OSError; `except requests.RequestException`
\* does not catch it and it leaves GetWeatherData
FetchSaveRaises ==
    /\ pc = "fetch"
    /\ k <= Len(months_to_fetch)
    /\ HtmlFile(months_to_fetch[k]) \in unwritable
    /\ requested' = Append(requested, months_to_fetch[k])
    /\ \E stage \in SaveFailures :
        /\ files' = FilesAfterFailedSave(files, HtmlFile(months_to_fetch[k]), stage)
        /\ partial' = FilesAfterFailedSave(partial, HtmlFile(months_to_fetch[k]), stage)
    /\ pc' = "raised"
    /\ UNCHANGED <<start_date, end_date, months_to_fetch, k, html_content, all_data,
                   filtered_data, failures, runFrame>>

\* _fetch_monthly_data: requests raises RequestException (status or transport)
FetchHttpError ==
    /\ pc = "fetch"
    /\ k <= Len(months_to_fetch)
    /\ failures < MaxFailures
    /\ requested' = Append(requested, months_to_fetch[k])
    /\ failures' = failures + 1
    /\ html_content' = <<None, None>>
    /\ pc' = "parse"
    /\ UNCHANGED <<start_date, end_date, months_to_fetch, k, all_data, filtered_data,
                   files, partial, runFrame>>

\* _fetch_monthly_data: chardet detects no encoding
FetchNoEncoding ==
    /\ pc = "fetch"
    /\ k <= Len(months_to_fetch)
    /\ failures < MaxFailures
    /\ requested' = Append(requested, months_to_fetch[k])
    /\ failures' = failures + 1
    /\ html_content' = <<None, None>>
    /\ pc' = "parse"
    /\ UNCHANGED <<start_date, end_date, months_to_fetch, k, all_data, filtered_data,
                   files, partial, runFrame>>

\* lines 31-35: `if html_content:` (a pair is never empty), parse, extend
ParseMonth ==
    /\ pc = "parse"
    /\ LET month_data == parse_html_to_data(html_content)
       IN IF Len(html_content) = 0
          THEN all_data' = all_data /\ pc' = "fetch"
          ELSE IF month_data.raised
          THEN all_data' = all_data /\ pc' = "raised"
          ELSE all_data' = all_data \o month_data.data /\ pc' = "fetch"
    /\ k' = k + 1
    /\ UNCHANGED <<start_date, end_date, months_to_fetch, html_content, requested,
                   files, partial, failures, filtered_data, runFrame>>

\* line 38: filtered_data = _filter_data_by_date(all_data, start_date, today)
FilterRun ==
    /\ pc = "fetch"
    /\ k > Len(months_to_fetch)
    /\ filtered_data' = filter_data_by_date(all_data, start_date, end_date)
    /\ pc' = "write"
    /\ UNCHANGED <<start_date, end_date, months_to_fetch, k, html_content, requested,
                   files, partial, failures, all_data, runFrame>>

\* line 41: _write_to_excel(filtered_data, city); os.mkdir or wb.save raises
\* OSError where the spreadsheet can not be written, before or after the
\* file was opened, and nothing catches it
WriteExcel ==
    /\ pc = "write"
    /\ IF ~WritesFile(filtered_data)
       THEN files' = files /\ partial' = partial /\ pc' = "run_done"
       ELSE IF ExcelFile \notin unwritable
       THEN /\ files' = files \cup {ExcelFile}
            /\ partial' = partial \ {ExcelFile}
            /\ pc' = "run_done"
       ELSE /\ \E stage \in SaveFailures :
                /\ files' = FilesAfterFailedSave(files, ExcelFile, stage)
                /\ partial' = FilesAfterFailedSave(partial, ExcelFile, stage)
            /\ pc' = "raised"
    /\ UNCHANGED <<start_date, end_date, months_to_fetch, k, html_content, requested,
                   failures, all_data, filtered_data, runFrame>>

NextRun ==
    RunStart \/ FetchOk \/ FetchSaveRaises \/ FetchHttpError \/ FetchNoEncoding \/ ParseMonth
        \/ FilterRun \/ WriteExcel

SpecRun == InitRun /\ [][NextRun]_vars

(***************************************************************************)
(* Claims about a run of GetWeatherData (specification SpecRun)            *)
(***************************************************************************)
\* the records the rows of the site for one YearMonth token stand for
SiteRecords(token) ==
    LET ordered == DaysInOrder({d \in site : ToString(d.year * 100 + d.month) = token})
    IN [i \in 1..Len(ordered) |->
          [date |-> ordered[i], weather_day_night |-> <<"a">>, high_temp |-> <<"5">>,
           low_temp |-> <<"3">>, wind_day |-> <<"N">>, wind_night |-> <<>>]]

\* the step is a save that raises: of the page of month k, or of the
\* spreadsheet
SaveRaises ==
    \/ pc = "fetch" /\ HtmlFile(months_to_fetch[k]) \in unwritable
    \/ pc = "write" /\ ExcelFile \in unwritable

\* C2: when the fetch of a month fails (HTTP or transport error, or no
\* encoding detected), that month adds no record to all_data and the run does
\* not raise: no step of a failed fetch, and no step that parses, leads to
\* raised.  The loop goes on: every month of the list is requested in its
\* turn and parsed, a run reaches the filter only with every month requested,
\* and the records of the months fetched successfully reach the filter
\* unchanged.
C2_FailedMonthAbsorbed ==
    [][ /\ (pc = "fetch" /\ failures' > failures) =>
              /\ requested' = Append(requested, months_to_fetch[k])
              /\ html_content' = <<None, None>>
              /\ pc' = "parse"
              /\ files' = files /\ all_data' = all_data
        /\ (pc = "parse" /\ html_content = <<None, None>>) =>
              (all_data' = all_data /\ k' = k + 1 /\ pc' = "fetch")
        /\ (pc = "parse" /\ html_content # <<None, None>>) =>
              (all_data' = all_data \o SiteRecords(months_to_fetch[k])
               /\ k' = k + 1 /\ pc' = "fetch")
        /\ (pc = "fetch" /\ k <= Len(months_to_fetch)) =>
              requested' = Append(requested, months_to_fetch[k])
        /\ pc' = "raised" => (SaveRaises /\ failures' = failures)
        /\ pc' = "write" =>
              (requested = months_to_fetch /\ all_data' = all_data)
      ]_vars

\* a run over three months whose first two fetches failed and whose third
\* month still delivered its record
C2_Witness ==
    /\ pc = "run_done"
    /\ Len(months_to_fetch) = 3
    /\ requested = months_to_fetch
    /\ failures = 2
    /\ site = {Midnight(start_date), Midnight(end_date)}
    /\ Len(all_data) = 1
    /\ all_data[1].date = Midnight(end_date)

\* comparison of calendar dates, the time of day left out
DateLeq(a, b) == DtLeq(Midnight(a), Midnight(b))

\* C4: whatever the time of day of the run, the records retained are exactly
\* the parsed records whose calendar date d satisfies
\* today - 30 days <= d <= today, both ends included as calendar dates.
C4_WindowIsCalendarDates ==
    pc = "run_done" =>
        \A i \in 1..Len(all_data) :
            (\E j \in 1..Len(filtered_data) : filtered_data[j] = all_data[i])
                <=> (/\ DateLeq(SubDays(end_date, LookbackDays), all_data[i].date)
                     /\ DateLeq(all_data[i].date, end_date))

\* the spreadsheet has been written: the file exists and is complete
ExcelWritten == ExcelFile \in files /\ ExcelFile \notin partial

\* C6: in every run the spreadsheet is written if and only if at least one
\* record survives the date filter; with an empty filtered sequence
\* _write_to_excel writes no file and the run ends without raising.
C6_ExcelIffRecords ==
    [][ /\ pc' \in {"run_done", "raised"} => (ExcelWritten' <=> filtered_data' # <<>>)
        /\ pc' \notin {"run_done", "raised"} => ~ExcelWritten'
        /\ (pc = "write" /\ filtered_data = <<>>) =>
              (files' = files /\ pc' = "run_done")
      ]_vars

\* C9: in one run no YearMonth is requested more than once.
C9_NoMonthRequestedTwice ==
    \A i, j \in 1..Len(requested) : i # j => requested[i] # requested[j]

(***************************************************************************)
(* String2Pinyin                                                           *)
(***************************************************************************)
MaxLen == 4

CitySuffix == "U5E02"

\* the reading lazy_pinyin gives a Chinese character, for the characters of
\* the model: Shen, Zhen, Shi, Bei, Jing
Readings ==
    [U6DF1 |-> "shen", U5733 |-> "zhen", U5E02 |-> "shi", U5317 |-> "bei", U4EAC |-> "jing"]

IsHanzi(c) == c \in DOMAIN Readings

\* lazy_pinyin: one syllable for each Chinese character; a run of other
\* characters is kept as one element, unchanged
RECURSIVE LazyPinyinFrom(_, _, _)
LazyPinyinFrom(t, acc, inRun) ==
    IF t = <<>> THEN acc
    ELSE IF IsHanzi(Head(t))
    THEN LazyPinyinFrom(Tail(t), Append(acc, Readings[Head(t)]), FALSE)
    ELSE IF inRun
    THEN LazyPinyinFrom(Tail(t), [acc EXCEPT ![Len(acc)] = acc[Len(acc)] \o Head(t)], TRUE)
    ELSE LazyPinyinFrom(Tail(t), Append(acc, Head(t)), TRUE)

lazy_pinyin(t) == LazyPinyinFrom(t, <<>>, FALSE)

\* variant: only trailing occurrences removed, as rstrip(c) does
RECURSIVE RemoveTrailing(_, _)
RemoveTrailing(t, c) ==
    IF t # <<>> /\ t[Len(t)] = c THEN RemoveTrailing(SubSeq(t, 1, Len(t) - 1), c) ELSE t

\* inputStr.replace(c, ''): every occurrence of c removed
RECURSIVE Replace(_, _)
Replace(t, c) ==
    IF t = <<>> THEN <<>>
    ELSE IF Head(t) = c THEN Replace(Tail(t), c)
    ELSE <<Head(t)>> \o Replace(Tail(t), c)

\* ''.join(pinyinList)
RECURSIVE Join(_)
Join(list) == IF list = <<>> THEN "" ELSE Head(list) \o Join(Tail(list))

PinyinAlphabet == {"U6DF1", "U5733", CitySuffix, "z"}

InitPinyin ==
    /\ pc = "pinyin_replace"
    /\ inputStr \in SeqsUpTo(PinyinAlphabet, MaxLen)
    /\ modifiedStr = <<>>
    /\ pinyinList = <<>>
    /\ pinyin = ""
    /\ DatesIdle /\ MonthsIdle /\ ParseIdle /\ RunIdle /\ FilterIdle

pinyinFrame == <<start_date, end_date, monthVars, parseVars, runVars, filterVars>>

\* line 5: modifiedStr = inputStr.replace(suffix, '')
PinyinReplace ==
    /\ pc = "pinyin_replace"
    /\ modifiedStr' = Replace(inputStr, CitySuffix)
    /\ pc' = "pinyin_transcribe"
    /\ UNCHANGED <<inputStr, pinyinList, pinyin, pinyinFrame>>

\* line 8: pinyinList = lazy_pinyin(modifiedStr)
PinyinTranscribe ==
    /\ pc = "pinyin_transcribe"
    /\ pinyinList' = lazy_pinyin(modifiedStr)
    /\ pc' = "pinyin_join"
    /\ UNCHANGED <<inputStr, modifiedStr, pinyin, pinyinFrame>>

\* lines 11-13: pinyin = ''.join(pinyinList); return pinyin
PinyinJoin ==
    /\ pc = "pinyin_join"
    /\ pinyin' = Join(pinyinList)
    /\ pc' = "pinyin_done"
    /\ UNCHANGED <<inputStr, modifiedStr, pinyinList, pinyinFrame>>

NextPinyin == PinyinReplace \/ PinyinTranscribe \/ PinyinJoin

SpecPinyin == InitPinyin /\ [][NextPinyin]_vars

\* the syllable of one character: its reading, or the character itself
Syllable(c) == IF c \in DOMAIN Readings THEN Readings[c] ELSE c

\* the syllables of the characters of t other than the suffix, one after
\* the other with nothing between them
RECURSIVE SyllablesWithoutSuffix(_)
SyllablesWithoutSuffix(t) ==
    IF t = <<>> THEN ""
    ELSE IF Head(t) = CitySuffix THEN SyllablesWithoutSuffix(Tail(t))
    ELSE Syllable(Head(t)) \o SyllablesWithoutSuffix(Tail(t))

\* C8: String2Pinyin(s) is the concatenation, in order and without
\* separators, of the syllables of the characters of s once every occurrence
\* of the suffix character, at any position, is removed; the empty string
\* and a string of suffix characters only give the empty string.
C8_PinyinOfStrippedString ==
    pc = "pinyin_done" =>
        /\ pinyin = SyllablesWithoutSuffix(inputStr)
        /\ (\A i \in 1..Len(inputStr) : inputStr[i] = CitySuffix) => pinyin = ""

\* the suffix character in front of and between other characters
C8_Witness ==
    /\ pc = "pinyin_done"
    /\ inputStr = <<CitySuffix, "U6DF1", CitySuffix, "U5733">>
    /\ pinyin = "shenzhen"

====
